---- MODULE Spec2Model ----
(***************************************************************************)
(* Model of the drone-sim operator console's realtime link:                *)
(*   - WsClient (frontend/src/net/ws.js): the reconnecting channel,        *)
(*   - the command sampler and keyboard override (frontend/src/app.js).    *)
(* Axis values are fixed-point tenths (1.2 is written 12): the code only   *)
(* adds and subtracts KEY_PITCH / KEY_ROLL and copies slider values, and   *)
(* 0 - 1.2 + 1.2 is exactly 0 in IEEE doubles, so tenths are exact.        *)
(* The variables cmds .. logged describe what the most recent handler run  *)
(* did (they are rewritten by every handler), ev names that handler.       *)
(* The control-mode selector, its REST calls and the status poll of app.js *)
(* are modelled with the backend's mode; text written to display elements  *)
(* (telemetry, status and camera panes) is read by nothing and left out.   *)
(***************************************************************************)
EXTENDS Integers, Sequences, FiniteSets, Bags

VARIABLES
  started,        \* app.js top level has run (ws.connect(), setInterval)
  sockets,        \* readyState of every WebSocket created so far, by creation order
  ws,             \* WsClient.ws: index into sockets, 0 is null
  isOpen,         \* WsClient.isOpen
  timers,         \* pending setTimeout(() => this.connect(), d) callbacks: their delays
  onCamera,       \* whether a camera handler was passed to the constructor
  hasOnTelemetry, \* whether a telemetry handler was passed to the constructor
  keyboardState,  \* app.js keyboardState
  manual,         \* numeric values of the four range sliders
  ev,             \* the most recent handler run
  msg,            \* payload of the most recent message event
  cmds,           \* Commands built by getCommand in that run
  sends,          \* number of sendCommand calls in that run
  out,            \* frames that run put on the wire
  threw,          \* that run ended with an uncaught exception
  invoked,        \* handlers (telemetry / camera) that run invoked
  logged,         \* console.error calls of that run
  dronePos,       \* drone.position of the scene
  droneRot,       \* drone.rotation of the scene
  displayed,      \* controlModeEl.value, the control mode shown to the operator
  backend,        \* the backend's control mode
  reqs,           \* HTTP requests in flight (a bag: they complete in any order)
  acted,          \* operator actions on the mode controls so far
  faults,         \* requests that failed so far
  done            \* the request whose continuation that run was

vars == <<started, sockets, ws, isOpen, timers, onCamera, hasOnTelemetry, keyboardState, manual,
          ev, msg, cmds, sends, out, threw, invoked, logged,
          dronePos, droneRot, displayed, backend, reqs, acted, faults, done>>

chan == <<sockets, ws, isOpen, timers>>
drone == <<dronePos, droneRot>>
mode == <<displayed, backend, reqs, acted, faults>>

(***************************************************************************)
(* Bounds and program constants                                            *)
(***************************************************************************)
MaxSockets == 3
MaxInFlight == 2
MaxActions == 2
MaxFaults == 1

KEY_PITCH == 12
KEY_ROLL == 12
RECONNECT_DELAY == 1000

Keys == {"ArrowUp", "ArrowDown", "ArrowLeft", "ArrowRight"}
EventKeys == Keys \cup {"a"}
Axes == {"throttle", "pitch", "roll", "yaw"}
PowerValues == {0, 6}
TiltValues == {-15, 0, 4}
SliderValues(axis) == IF axis \in {"pitch", "roll"} THEN TiltValues ELSE PowerValues
ManualInputs ==
  {m \in [Axes -> PowerValues \cup TiltValues] : \A a \in Axes : m[a] \in SliderValues(a)}

NoMsg == [json |-> "none", type |-> "none"]
Frames ==
  {[json |-> j, type |-> "none"] : j \in {"invalid", "null", "scalar"}}
    \cup {[json |-> "object", type |-> t] : t \in {"telemetry", "camera", "status", "none"}}

\* wasOpen is isOpen as the handler found it; again marks a sampler tick that
\* directly follows another tick; error marks a close that came with an error event;
\* held tells whether some directional key was recorded as held when it began.
Modes == {"manual", "script", "rl"}
Request(kind, m) == [kind |-> kind, mode |-> m, stage |-> "sent", data |-> "none"]
NoReq == [kind |-> "none", mode |-> "none", stage |-> "none", data |-> "none",
          before |-> "none"]

\* Frames on which the handler they are routed to raises an exception.
ThrowingFrames ==
  {[json |-> "object", type |-> t, throws |-> TRUE] : t \in {"telemetry", "camera"}}
Throws(data) == "throws" \in DOMAIN data

\* Telemetry frames with their vectors; a frame may lack pos, rot or both.
PosVectors == {<<a, b, c>> : a \in {1, 2}, b \in {1, 2}, c \in {1, 2}} \cup {<<1, 2, 3>>}
RotVectors == {<<a, b, c>> : a \in {4, 5}, b \in {4, 5}, c \in {4, 5}} \cup {<<4, 5, 6>>}
Bare == [json |-> "object", type |-> "telemetry"]
TelemetryFrames ==
  {Bare}
    \cup {[json |-> "object", type |-> "telemetry", pos |-> p] : p \in PosVectors}
    \cup {[json |-> "object", type |-> "telemetry", rot |-> r] : r \in RotVectors}
    \cup {[json |-> "object", type |-> "telemetry", pos |-> p, rot |-> r] :
            p \in PosVectors, r \in RotVectors}

Event(kind, sock) ==
  [kind |-> kind, sock |-> sock, wasOpen |-> isOpen, again |-> FALSE, error |-> FALSE,
   held |-> \E k \in Keys : keyboardState[k]]

(***************************************************************************)
(* ConnectionState of the specification, read off the client's fields.     *)
(***************************************************************************)
ChannelState ==
  IF isOpen THEN "Open"
  ELSE IF ws # 0 /\ sockets[ws] = "CONNECTING" THEN "Connecting"
  ELSE "Disconnected"

(***************************************************************************)
(* Command sampler (app.js)                                                *)
(***************************************************************************)
getKeyboardCommandAnyKey(ks) ==
  LET pitch == (IF ks["ArrowUp"] THEN 0 - KEY_PITCH ELSE 0)
                 + (IF ks["ArrowDown"] THEN KEY_PITCH ELSE 0)
      roll == (IF ks["ArrowLeft"] THEN 0 - KEY_ROLL ELSE 0)
                + (IF ks["ArrowRight"] THEN KEY_ROLL ELSE 0)
  IN [active |-> \E k \in Keys : ks[k], pitch |-> pitch, roll |-> roll]

getKeyboardCommand(ks) ==
  LET pitch == (IF ks["ArrowUp"] THEN 0 - KEY_PITCH ELSE 0)
                 + (IF ks["ArrowDown"] THEN KEY_PITCH ELSE 0)
      roll == (IF ks["ArrowLeft"] THEN 0 - KEY_ROLL ELSE 0)
                + (IF ks["ArrowRight"] THEN KEY_ROLL ELSE 0)
  IN [active |-> pitch # 0 \/ roll # 0, pitch |-> pitch, roll |-> roll]

getCommandPerAxis(m, ks) ==
  LET command == [throttle |-> m["throttle"], pitch |-> m["pitch"],
                  roll |-> m["roll"], yaw |-> m["yaw"]]
      keyboard == getKeyboardCommand(ks)
  IN [command EXCEPT
        !.pitch = IF keyboard.pitch # 0 THEN keyboard.pitch ELSE command.pitch,
        !.roll = IF keyboard.roll # 0 THEN keyboard.roll ELSE command.roll]

getCommandAlwaysOverride(m, ks) ==
  LET command == [throttle |-> m["throttle"], pitch |-> m["pitch"],
                  roll |-> m["roll"], yaw |-> m["yaw"]]
      keyboard == getKeyboardCommand(ks)
  IN [command EXCEPT !.pitch = keyboard.pitch, !.roll = keyboard.roll]

getCommand(m, ks) ==
  LET command == [throttle |-> m["throttle"], pitch |-> m["pitch"],
                  roll |-> m["roll"], yaw |-> m["yaw"]]
      keyboard == getKeyboardCommand(ks)
  IN IF keyboard.active
     THEN [command EXCEPT !.pitch = keyboard.pitch, !.roll = keyboard.roll]
     ELSE command

(***************************************************************************)
(* WsClient (net/ws.js)                                                    *)
(***************************************************************************)
Serialize(cmd) ==
  [type |-> "command", throttle |-> cmd.throttle, pitch |-> cmd.pitch,
   roll |-> cmd.roll, yaw |-> cmd.yaw]

\* WebSocket.send: throws InvalidStateError while CONNECTING, transmits while
\* OPEN, silently discards the data while CLOSING or CLOSED.
SocketSend(s, frame) ==
  IF sockets[s] = "CONNECTING" THEN [out |-> <<>>, threw |-> TRUE]
  ELSE IF sockets[s] = "OPEN"
       THEN [out |-> <<[sock |-> s, frame |-> frame]>>, threw |-> FALSE]
       ELSE [out |-> <<>>, threw |-> FALSE]

sendCommandUnguarded(cmd) ==
  IF ws = 0 THEN [out |-> <<>>, threw |-> FALSE]
  ELSE SocketSend(ws, Serialize(cmd))

sendCommand(cmd) ==
  IF ws = 0 \/ ~isOpen THEN [out |-> <<>>, threw |-> FALSE]
  ELSE SocketSend(ws, Serialize(cmd))

\* connect(): a new socket replaces this.ws; isOpen and pending timers are untouched.
connect ==
  /\ sockets' = Append(sockets, "CONNECTING")
  /\ ws' = Len(sockets) + 1

Quiet ==
  /\ msg' = NoMsg
  /\ cmds' = <<>>
  /\ sends' = 0
  /\ out' = <<>>
  /\ threw' = FALSE
  /\ invoked' = <<>>
  /\ logged' = 0
  /\ done' = NoReq

\* The page as loaded, but for the two control modes.
Loaded ==
  /\ started = FALSE
  /\ sockets = <<>>
  /\ ws = 0
  /\ isOpen = FALSE
  /\ timers = <<>>
  /\ onCamera \in BOOLEAN
  /\ keyboardState = [k \in Keys |-> FALSE]
  /\ manual \in ManualInputs
  /\ ev = [kind |-> "init", sock |-> 0, wasOpen |-> FALSE, again |-> FALSE,
           error |-> FALSE, held |-> FALSE]
  /\ msg = NoMsg
  /\ cmds = <<>>
  /\ sends = 0
  /\ out = <<>>
  /\ threw = FALSE
  /\ invoked = <<>>
  /\ logged = 0
  /\ dronePos = <<0, 0, 0>>
  /\ droneRot = <<0, 0, 0>>
  /\ reqs = EmptyBag
  /\ acted = 0
  /\ faults = 0
  /\ done = NoReq

Init ==
  /\ Loaded
  /\ hasOnTelemetry = TRUE
  /\ displayed = "manual"
  /\ backend = "manual"

\* app.js top level: ws.connect() and the registration of the 50 ms sampler.
Start ==
  /\ ~started
  /\ started' = TRUE
  /\ connect
  /\ ev' = Event("connect", Len(sockets) + 1)
  /\ Quiet
  /\ UNCHANGED <<isOpen, timers, onCamera, hasOnTelemetry, keyboardState, manual, drone, mode>>

TimerFireRepeating ==
  /\ timers # <<>>
  /\ timers' = timers
  /\ connect
  /\ ev' = Event("timer", Len(sockets) + 1)
  /\ Quiet
  /\ UNCHANGED <<started, isOpen, onCamera, hasOnTelemetry, keyboardState, manual, drone, mode>>

\* connect() by the reconnect timer (ws.js line 17).
TimerFire ==
  /\ timers # <<>>
  /\ timers' = Tail(timers)
  /\ connect
  /\ ev' = Event("timer", Len(sockets) + 1)
  /\ Quiet
  /\ UNCHANGED <<started, isOpen, onCamera, hasOnTelemetry, keyboardState, manual, drone, mode>>

\* connect() by a caller of the class while the channel is Connecting or Open.
CallerConnect ==
  /\ started
  /\ ChannelState \in {"Connecting", "Open"}
  /\ Len(sockets) + Len(timers) < MaxSockets
  /\ connect
  /\ ev' = Event("connect", Len(sockets) + 1)
  /\ Quiet
  /\ UNCHANGED <<started, isOpen, timers, onCamera, hasOnTelemetry,
                 keyboardState, manual, drone, mode>>

SocketOpenUnflagged(s) ==
  /\ sockets[s] = "CONNECTING"
  /\ sockets' = [sockets EXCEPT ![s] = "OPEN"]
  /\ isOpen' = isOpen
  /\ ev' = Event("open", s)
  /\ Quiet
  /\ UNCHANGED <<started, ws, timers, onCamera, hasOnTelemetry, keyboardState, manual, drone, mode>>

\* "open" listener.
SocketOpen(s) ==
  /\ sockets[s] = "CONNECTING"
  /\ sockets' = [sockets EXCEPT ![s] = "OPEN"]
  /\ isOpen' = TRUE
  /\ ev' = Event("open", s)
  /\ Quiet
  /\ UNCHANGED <<started, ws, timers, onCamera, hasOnTelemetry, keyboardState, manual, drone, mode>>

\* The peer starts the closing handshake: readyState CLOSING, no event yet.
SocketClosing(s) ==
  /\ sockets[s] = "OPEN"
  /\ sockets' = [sockets EXCEPT ![s] = "CLOSING"]
  /\ ev' = Event("closing", s)
  /\ Quiet
  /\ UNCHANGED <<started, ws, isOpen, timers, onCamera, hasOnTelemetry,
                 keyboardState, manual, drone, mode>>

\* "close" listener. A failed connection fires "error" first, in the same task;
\* the client registers no "error" listener.
OnCloseKeepsFlag ==
  /\ isOpen' = isOpen
  /\ timers' = Append(timers, RECONNECT_DELAY)

OnCloseAfterOpenOnly ==
  /\ isOpen' = FALSE
  /\ timers' = IF isOpen THEN Append(timers, RECONNECT_DELAY) ELSE timers

OnClose ==
  /\ isOpen' = FALSE
  /\ timers' = Append(timers, RECONNECT_DELAY)

SocketCloseOnCleanOnly(s, failed) ==
  /\ sockets[s] # "CLOSED"
  /\ Len(sockets) + Len(timers) < MaxSockets
  /\ sockets' = [sockets EXCEPT ![s] = "CLOSED"]
  /\ IF failed THEN UNCHANGED <<isOpen, timers>> ELSE OnClose
  /\ ev' = [Event("close", s) EXCEPT !.error = failed]
  /\ Quiet
  /\ UNCHANGED <<started, ws, onCamera, hasOnTelemetry, keyboardState, manual, drone, mode>>

SocketClose(s, failed) ==
  /\ sockets[s] # "CLOSED"
  /\ Len(sockets) + Len(timers) < MaxSockets
  /\ sockets' = [sockets EXCEPT ![s] = "CLOSED"]
  /\ OnClose
  /\ ev' = [Event("close", s) EXCEPT !.error = failed]
  /\ Quiet
  /\ UNCHANGED <<started, ws, onCamera, hasOnTelemetry, keyboardState, manual, drone, mode>>

onTelemetryUnmapped(telemetry) ==
  LET pos == IF "pos" \in DOMAIN telemetry THEN telemetry.pos ELSE <<0, 0, 0>>
      rot == IF "rot" \in DOMAIN telemetry THEN telemetry.rot ELSE <<0, 0, 0>>
  IN [pos |-> pos, rot |-> rot]

\* The telemetry handler app.js passes to WsClient (tuples are 1-based).
onTelemetry(telemetry) ==
  LET pos == IF "pos" \in DOMAIN telemetry THEN telemetry.pos ELSE <<0, 0, 0>>
      rot == IF "rot" \in DOMAIN telemetry THEN telemetry.rot ELSE <<0, 0, 0>>
  IN [pos |-> <<pos[1], pos[3], pos[2]>>, rot |-> <<rot[2], rot[3], rot[1]>>]

OnMessageUncaught(data) ==
  IF data.json = "invalid" \/ data.json = "null"
  THEN [invoked |-> <<>>, logged |-> 0, threw |-> TRUE]
  ELSE LET type == IF data.json = "object" THEN data.type ELSE "none"
       IN IF type = "telemetry"
          THEN IF ~hasOnTelemetry
               THEN [invoked |-> <<>>, logged |-> 0, threw |-> TRUE]
               ELSE [invoked |-> <<"telemetry">>, logged |-> 0, threw |-> Throws(data)]
          ELSE IF type = "camera" /\ onCamera
               THEN [invoked |-> <<"camera">>, logged |-> 0, threw |-> Throws(data)]
               ELSE [invoked |-> <<>>, logged |-> 0, threw |-> FALSE]

OnMessageDefaultTelemetry(data) ==
  IF data.json = "invalid" \/ data.json = "null"
  THEN [invoked |-> <<>>, logged |-> 1, threw |-> FALSE]
  ELSE LET type == IF data.json = "object" THEN data.type ELSE "none"
       IN IF type = "camera" /\ onCamera
          THEN [invoked |-> <<"camera">>, logged |-> 0, threw |-> FALSE]
          ELSE [invoked |-> <<"telemetry">>, logged |-> 0, threw |-> FALSE]

\* "message" listener: what the try block does for one payload. JSON.parse
\* throws on invalid text; reading .type of null throws; calling a telemetry
\* handler that was not supplied throws; a handler may throw: all of these
\* happen inside the try block and are caught and logged.
OnMessage(data) ==
  IF data.json = "invalid" \/ data.json = "null"
  THEN [invoked |-> <<>>, logged |-> 1, threw |-> FALSE]
  ELSE LET type == IF data.json = "object" THEN data.type ELSE "none"
       IN IF type = "telemetry"
          THEN IF ~hasOnTelemetry
               THEN [invoked |-> <<>>, logged |-> 1, threw |-> FALSE]
               ELSE [invoked |-> <<"telemetry">>,
                     logged |-> IF Throws(data) THEN 1 ELSE 0, threw |-> FALSE]
          ELSE IF type = "camera" /\ onCamera
               THEN [invoked |-> <<"camera">>,
                     logged |-> IF Throws(data) THEN 1 ELSE 0, threw |-> FALSE]
               ELSE [invoked |-> <<>>, logged |-> 0, threw |-> FALSE]

SocketMessage(s, data) ==
  /\ sockets[s] = "OPEN"
  /\ LET r == OnMessage(data)
     IN /\ invoked' = r.invoked
        /\ logged' = r.logged
        /\ threw' = r.threw
        /\ dronePos' = IF r.invoked = <<"telemetry">> /\ ~Throws(data)
                        THEN onTelemetry(data).pos
                        ELSE dronePos
        /\ droneRot' = IF r.invoked = <<"telemetry">> /\ ~Throws(data)
                        THEN onTelemetry(data).rot
                        ELSE droneRot
  /\ msg' = data
  /\ ev' = Event("message", s)
  /\ cmds' = <<>>
  /\ sends' = 0
  /\ out' = <<>>
  /\ done' = NoReq
  /\ UNCHANGED <<started, chan, onCamera, hasOnTelemetry, keyboardState, manual, mode>>

SampleOnChange ==
  LET command == getCommand(manual, keyboardState)
  IN IF ev.kind = "tick"
     THEN [cmds |-> <<>>, sends |-> 0, result |-> [out |-> <<>>, threw |-> FALSE]]
     ELSE [cmds |-> <<command>>, sends |-> 1, result |-> sendCommand(command)]

\* setInterval(() => ws.sendCommand(getCommand()), 50)
Sample ==
  LET command == getCommand(manual, keyboardState)
  IN [cmds |-> <<command>>, sends |-> 1, result |-> sendCommand(command)]

Tick ==
  /\ started
  /\ LET t == Sample
     IN /\ cmds' = t.cmds
        /\ sends' = t.sends
        /\ out' = t.result.out
        /\ threw' = t.result.threw
  /\ ev' = [Event("tick", 0) EXCEPT !.again = (ev.kind = "tick")]
  /\ msg' = NoMsg
  /\ invoked' = <<>>
  /\ logged' = 0
  /\ done' = NoReq
  /\ UNCHANGED <<started, chan, onCamera, hasOnTelemetry, keyboardState, manual, drone, mode>>

handleKeyChangeAnyTarget(key, editable, isDown) ==
  IF key \in Keys THEN [keyboardState EXCEPT ![key] = isDown]
  ELSE keyboardState

\* keydown / keyup listeners; editable is isEditableTarget(event.target).
handleKeyChange(key, editable, isDown) ==
  IF editable THEN keyboardState
  ELSE IF key \in Keys THEN [keyboardState EXCEPT ![key] = isDown]
       ELSE keyboardState

KeyEvent(key, editable, isDown) ==
  /\ started
  /\ keyboardState' = handleKeyChange(key, editable, isDown)
  /\ ev' = Event(IF isDown THEN "keydown" ELSE "keyup", 0)
  /\ Quiet
  /\ UNCHANGED <<started, chan, onCamera, hasOnTelemetry, manual, drone, mode>>

BlurKeepsKeys ==
  /\ started
  /\ keyboardState' = keyboardState
  /\ ev' = Event("blur", 0)
  /\ Quiet
  /\ UNCHANGED <<started, chan, onCamera, hasOnTelemetry, manual, drone, mode>>

\* window "blur" listener.
Blur ==
  /\ started
  /\ keyboardState' = [k \in Keys |-> FALSE]
  /\ ev' = Event("blur", 0)
  /\ Quiet
  /\ UNCHANGED <<started, chan, onCamera, hasOnTelemetry, manual, drone, mode>>

\* The operator moves one range slider.
SliderInput(axis, v) ==
  /\ started
  /\ manual[axis] # v
  /\ manual' = [manual EXCEPT ![axis] = v]
  /\ ev' = Event("slider", 0)
  /\ Quiet
  /\ UNCHANGED <<started, chan, onCamera, hasOnTelemetry, keyboardState, drone, mode>>

(***************************************************************************)
(* Control mode: selector, run / stop buttons, status poll (app.js)        *)
(***************************************************************************)
\* The buttons whose action implies a mode.
Clicks == {"run", "autopilot", "stop"}

AtClickOptimistic(kind) == IF kind = "stop" THEN "manual" ELSE "script"

\* controlModeEl.value when a run / stop click handler reaches its await.
AtClick(kind) == displayed

\* Click on run, run-autopilot or stop: the handler sends its request and waits.
Click(kind) ==
  /\ started
  /\ acted < MaxActions
  /\ BagCardinality(reqs) < MaxInFlight
  /\ displayed' = AtClick(kind)
  /\ reqs' = reqs (+) SetToBag({Request(kind, "none")})
  /\ acted' = acted + 1
  /\ ev' = Event(kind, 0)
  /\ Quiet
  /\ UNCHANGED <<started, chan, onCamera, hasOnTelemetry,
                 keyboardState, manual, drone, backend, faults>>

\* The operator picks another option of the selector: the browser sets the
\* value, then the change listener posts it.
SelectMode(m) ==
  /\ started
  /\ acted < MaxActions
  /\ BagCardinality(reqs) < MaxInFlight
  /\ m # displayed
  /\ displayed' = m
  /\ reqs' = reqs (+) SetToBag({Request("setmode", m)})
  /\ acted' = acted + 1
  /\ ev' = Event("change", 0)
  /\ Quiet
  /\ UNCHANGED <<started, chan, onCamera, hasOnTelemetry,
                 keyboardState, manual, drone, backend, faults>>

\* setInterval(refreshRlStatus, 700): the poll sends its request and waits.
PollTick ==
  /\ started
  /\ BagCardinality(reqs) < MaxInFlight
  /\ reqs' = reqs (+) SetToBag({Request("status", "none")})
  /\ ev' = Event("poll", 0)
  /\ Quiet
  /\ UNCHANGED <<started, chan, onCamera, hasOnTelemetry, keyboardState, manual, drone, displayed,
                 backend, acted, faults>>

\* The backend's mode after it has carried out a request.
Applied(r) ==
  IF r.kind \in {"run", "autopilot"} THEN "script"
  ELSE IF r.kind = "stop" THEN "manual"
  ELSE IF r.kind = "setmode" THEN r.mode
  ELSE backend

Outcomes(r) ==
  IF r.kind = "status" THEN {"ok", "error", "lost", "nomode"} ELSE {"ok", "error", "lost"}

\* The backend answers a request: carried out ("ok"), refused with an HTTP
\* error status, lost on the network, or (status) answered without a mode.
Serve(r, outcome) ==
  /\ r.stage = "sent"
  /\ outcome \in Outcomes(r)
  /\ outcome # "ok" => faults < MaxFaults
  /\ faults' = IF outcome = "ok" THEN faults ELSE faults + 1
  /\ backend' = IF outcome = "ok" THEN Applied(r) ELSE backend
  /\ reqs' = (reqs (-) SetToBag({r})) (+) SetToBag({
                [r EXCEPT !.stage = IF outcome = "nomode" THEN "ok" ELSE outcome,
                          !.data = IF r.kind = "status" /\ outcome = "ok"
                                   THEN backend ELSE "none"]})
  /\ ev' = Event("serve", 0)
  /\ Quiet
  /\ UNCHANGED <<started, chan, onCamera, hasOnTelemetry,
                 keyboardState, manual, drone, displayed, acted>>

AfterFetchUncaught(r) ==
  IF r.stage = "lost" THEN [displayed |-> displayed, threw |-> TRUE, post |-> {}]
  ELSE IF r.kind = "status"
  THEN IF r.stage = "ok" /\ r.data \in Modes /\ displayed # r.data
       THEN [displayed |-> r.data, threw |-> FALSE, post |-> {}]
       ELSE [displayed |-> displayed, threw |-> FALSE, post |-> {}]
  ELSE IF r.kind = "setmode" THEN [displayed |-> displayed, threw |-> FALSE, post |-> {}]
  ELSE [displayed |-> IF r.kind = "stop" THEN "manual" ELSE "script",
        threw |-> FALSE, post |-> {}]

AfterFetchKeepsLocal(r) ==
  IF r.kind = "status" THEN [displayed |-> displayed, threw |-> FALSE, post |-> {}]
  ELSE IF r.stage = "lost" THEN [displayed |-> displayed, threw |-> TRUE, post |-> {}]
  ELSE IF r.kind = "setmode" THEN [displayed |-> displayed, threw |-> FALSE, post |-> {}]
  ELSE [displayed |-> IF r.kind = "stop" THEN "manual" ELSE "script",
        threw |-> FALSE, post |-> {}]

AfterFetchEchoes(r) ==
  IF r.kind = "status"
  THEN IF r.stage = "ok" /\ r.data \in Modes /\ displayed # r.data
       THEN [displayed |-> r.data, threw |-> FALSE,
             post |-> {Request("setmode", r.data)}]
       ELSE [displayed |-> displayed, threw |-> FALSE, post |-> {}]
  ELSE IF r.stage = "lost" THEN [displayed |-> displayed, threw |-> TRUE, post |-> {}]
  ELSE IF r.kind = "setmode" THEN [displayed |-> displayed, threw |-> FALSE, post |-> {}]
  ELSE [displayed |-> IF r.kind = "stop" THEN "manual" ELSE "script",
        threw |-> FALSE, post |-> {}]

\* What runs after the await of a request: the rest of refreshRlStatus (which
\* catches a rejected fetch and returns on a non-OK response) or of a click /
\* change handler (a rejected fetch ends those with an unhandled rejection;
\* the HTTP status is not looked at). Assigning controlModeEl.value fires no
\* change event, so nothing is posted.
AfterFetch(r) ==
  IF r.kind = "status"
  THEN IF r.stage = "ok" /\ r.data \in Modes /\ displayed # r.data
       THEN [displayed |-> r.data, threw |-> FALSE, post |-> {}]
       ELSE [displayed |-> displayed, threw |-> FALSE, post |-> {}]
  ELSE IF r.stage = "lost" THEN [displayed |-> displayed, threw |-> TRUE, post |-> {}]
  ELSE IF r.kind = "setmode" THEN [displayed |-> displayed, threw |-> FALSE, post |-> {}]
  ELSE [displayed |-> IF r.kind = "stop" THEN "manual" ELSE "script",
        threw |-> FALSE, post |-> {}]

\* The response (or the failure) of request r reaches the page.
Deliver(r) ==
  /\ r.stage # "sent"
  /\ LET a == AfterFetch(r)
     IN /\ displayed' = a.displayed
        /\ threw' = a.threw
        /\ reqs' = (reqs (-) SetToBag({r})) (+) SetToBag(a.post)
        /\ done' = [kind |-> r.kind, mode |-> r.mode, stage |-> r.stage,
                    data |-> r.data, before |-> displayed]
  /\ ev' = Event("response", 0)
  /\ msg' = NoMsg
  /\ cmds' = <<>>
  /\ sends' = 0
  /\ out' = <<>>
  /\ invoked' = <<>>
  /\ logged' = 0
  /\ UNCHANGED <<started, chan, onCamera, hasOnTelemetry, keyboardState, manual, drone, backend,
                 acted, faults>>

Socks == 1..Len(sockets)
Reqs == BagToSet(reqs)

ChannelNext ==
  \/ Start
  \/ TimerFire
  \/ \E s \in Socks : SocketOpen(s)
  \/ \E s \in Socks : SocketClosing(s)
  \/ \E s \in Socks, failed \in BOOLEAN : SocketClose(s, failed)
  \/ \E s \in Socks, data \in Frames : SocketMessage(s, data)
  \/ Tick

InputNext ==
  \/ \E key \in EventKeys, editable \in BOOLEAN, isDown \in BOOLEAN :
       KeyEvent(key, editable, isDown)
  \/ Blur
  \/ \E axis \in Axes : \E v \in SliderValues(axis) : SliderInput(axis, v)

\* The application: connect() once at start-up, afterwards only by the timer.
Next == ChannelNext \/ InputNext

Spec == Init /\ [][Next]_vars

\* The class used by a caller that also calls connect() itself.
ApiNext == ChannelNext \/ CallerConnect

ApiSpec == Init /\ [][ApiNext]_vars

\* The sampler and its inputs alone; the socket stays as start-up left it.
KeyNext == Start \/ Tick \/ InputNext

KeySpec == Init /\ [][KeyNext]_vars

\* Telemetry frames with vectors arriving on the first socket.
MapNext ==
  \/ Start
  \/ \E s \in Socks : SocketOpen(s)
  \/ \E s \in Socks, data \in TelemetryFrames : SocketMessage(s, data)

MapSpec == Init /\ [][MapNext]_vars

\* The control mode alone: any displayed and backend mode at page load.
ModeInit ==
  /\ Loaded
  /\ onCamera
  /\ hasOnTelemetry = TRUE
  /\ manual = [a \in Axes |-> 0]
  /\ displayed \in Modes
  /\ backend \in Modes

ServeSome == \E r \in Reqs : \E outcome \in Outcomes(r) : Serve(r, outcome)
DeliverSome == \E r \in Reqs : Deliver(r)

ModeNext ==
  \/ Start
  \/ \E kind \in Clicks : Click(kind)
  \/ \E m \in Modes : SelectMode(m)
  \/ PollTick
  \/ ServeSome
  \/ DeliverSome

ModeSpec == ModeInit /\ [][ModeNext]_vars

\* The same with the poll timer firing and every request answered and delivered.
ModeFair ==
  /\ ModeInit
  /\ [][ModeNext]_vars
  /\ WF_vars(Start)
  /\ WF_vars(PollTick)
  /\ WF_vars(ServeSome)
  /\ WF_vars(DeliverSome)

\* The class on its own: the constructor's handlers are the caller's, the
\* telemetry handler may be missing and a handler may throw on a frame.
ClassInit ==
  /\ Loaded
  /\ hasOnTelemetry \in BOOLEAN
  /\ manual = [a \in Axes |-> 0]
  /\ displayed = "manual"
  /\ backend = "manual"

ClassNext ==
  \/ Start
  \/ TimerFire
  \/ \E s \in Socks : SocketOpen(s)
  \/ \E s \in Socks : SocketClosing(s)
  \/ \E s \in Socks, failed \in BOOLEAN : SocketClose(s, failed)
  \/ \E s \in Socks, data \in Frames \cup ThrowingFrames : SocketMessage(s, data)

ClassSpec == ClassInit /\ [][ClassNext]_vars

\* The channel alone, with the event loop running every timer that is due.
FairSpec == Init /\ [][ChannelNext]_vars /\ WF_vars(TimerFire)

(***************************************************************************)
(* Claims                                                                  *)
(***************************************************************************)
Sampled == ev.kind = "tick" /\ Len(cmds) = 1

\* C1: a sendCommand made while the channel is not Open puts no frame on the
\* wire and raises nothing; frames reach the wire only in a sampler tick made
\* while Open, one per sendCommand call, carrying that very call's command on
\* the current socket (nothing is queued and sent by a later handler).
C1_SendWhileNotOpenIsDropped ==
  /\ (ev.kind = "tick" /\ ChannelState # "Open") => (sends = 1 /\ out = <<>> /\ ~threw)
  /\ out # <<>> =>
       /\ Sampled
       /\ sends = 1
       /\ Len(out) = 1
       /\ ChannelState = "Open"
       /\ out[1].sock = ws
       /\ out[1].frame = Serialize(cmds[1])

C1_Witness ==
  /\ ev.kind = "tick"
  /\ ChannelState = "Connecting"
  /\ Len(sockets) = 2
  /\ sends = 1
  /\ out = <<>>

\* C2: every close event is answered by exactly one reconnect attempt, pending
\* with the fixed delay or already made, whether or not the closed socket had
\* opened and however many attempts came before; and a pending attempt is made.
C2_Accounting ==
  /\ Len(sockets) + Len(timers)
       = (IF started THEN 1 ELSE 0) + Cardinality({s \in Socks : sockets[s] = "CLOSED"})
  /\ \A i \in 1..Len(timers) : timers[i] = RECONNECT_DELAY
  /\ ev.kind = "close" => Len(timers) = 1

C2_OneReconnectPerClose ==
  /\ []C2_Accounting
  /\ (timers # <<>>) ~> (ev.kind = "timer")

C2_Witness ==
  /\ ev.kind = "close"
  /\ ~ev.wasOpen
  /\ Len(sockets) = 2
  /\ timers = <<RECONNECT_DELAY>>

\* C3, the transitions of the state machine as the specification lists them.
ListedTransition ==
  \/ /\ ChannelState = "Disconnected" /\ ChannelState' = "Connecting"
     /\ ev'.kind \in {"connect", "timer"}
  \/ /\ ChannelState = "Connecting" /\ ChannelState' = "Open"
     /\ ev'.kind = "open" /\ ev'.sock = ws
  \/ /\ ChannelState = "Open" /\ ChannelState' = "Disconnected"
     /\ ev'.kind = "close" /\ ev'.sock = ws

\* A connection attempt that fails: the socket closes without having opened.
FailedAttempt ==
  /\ ChannelState = "Connecting" /\ ChannelState' = "Disconnected"
  /\ ev'.kind = "close" /\ ev'.sock = ws

\* Open is reported only for the current socket, opened and with no close event yet.
OpenIsCurrent ==
  isOpen => (ws # 0 /\ sockets[ws] \in {"OPEN", "CLOSING"})

\* C3 as stated: the channel's state changes only along Disconnected ->
\* Connecting -> Open -> Disconnected, each by its own event.
C3_OnlyListedTransitions ==
  [][ChannelState' # ChannelState => ListedTransition]_vars

\* C3 as amended: the state changes only along the listed transitions or from
\* Connecting to Disconnected by the close event of a failed attempt; Open is
\* only ever reported for the current socket, after its open event and before
\* its close event.
C3_LegalTransitions ==
  /\ []OpenIsCurrent
  /\ [][ChannelState' # ChannelState => (ListedTransition \/ FailedAttempt)]_vars

C3_Witness ==
  /\ ev.kind = "close"
  /\ ev.wasOpen
  /\ ChannelState = "Disconnected"
  /\ Len(sockets) = 2

\* C4: after connect() on a Connecting or Open channel, the events of a socket
\* that is no longer the current one leave isOpen and the pending reconnects
\* alone, and no sendCommand raises.
C4_AbandonedSocketIsInert ==
  [][/\ ev'.kind = "tick" => ~threw'
     /\ (ev'.kind \in {"open", "close", "message"} /\ ev'.sock # ws)
          => (isOpen' = isOpen /\ timers' = timers)]_vars

\* C5: an inbound frame that is not valid JSON reaches no handler, is reported
\* once, raises nothing, and leaves the channel Open on its socket with no
\* reconnect scheduled; a telemetry frame that follows it is routed as usual.
Unparsable(m) == m.json = "invalid"

C5_State ==
  (ev.kind = "message" /\ Unparsable(msg)) =>
    /\ invoked = <<>>
    /\ logged = 1
    /\ ~threw
    /\ ChannelState = "Open"
    /\ sockets[ws] = "OPEN"
    /\ timers = <<>>

C5_ParseFailureIsNotFatal ==
  /\ []C5_State
  /\ [][(/\ ev.kind = "message" /\ Unparsable(msg)
          /\ ev'.kind = "message" /\ msg' = [json |-> "object", type |-> "telemetry"])
         => invoked' = <<"telemetry">>]_vars

C5_Witness ==
  /\ ev.kind = "message"
  /\ Unparsable(msg)
  /\ logged = 1
  /\ isOpen
  /\ Len(sockets) = 2

\* C6: a frame that parses is routed by its type alone: telemetry to the
\* telemetry handler once, camera to the camera handler once when one is
\* registered, anything else (or no type) to no handler; nothing is raised.
TypeOf(m) == IF m.json = "object" THEN m.type ELSE "none"

C6_RoutedByType ==
  (ev.kind = "message" /\ ~Unparsable(msg)) =>
    /\ ~threw
    /\ TypeOf(msg) = "telemetry" => invoked = <<"telemetry">>
    /\ (TypeOf(msg) = "camera" /\ onCamera) => invoked = <<"camera">>
    /\ (TypeOf(msg) = "camera" /\ ~onCamera) => invoked = <<>>
    /\ TypeOf(msg) \notin {"telemetry", "camera"} => invoked = <<>>

C6_Witness ==
  /\ ev.kind = "message"
  /\ msg = [json |-> "object", type |-> "status"]
  /\ invoked = <<>>
  /\ onCamera

\* C7: every sampler tick builds exactly one Command and makes exactly one
\* sendCommand call, in every channel state and also when nothing happened
\* since the previous tick; no other handler builds or sends a Command.
C7_OneCommandPerTick ==
  /\ ev.kind = "tick" => (Len(cmds) = 1 /\ sends = 1)
  /\ ev.kind # "tick" => (cmds = <<>> /\ sends = 0)

C7_Witness ==
  /\ ev.kind = "tick"
  /\ ev.again
  /\ ChannelState = "Disconnected"
  /\ Len(cmds) = 1
  /\ sends = 1

Held(k) == keyboardState[k]
OnlyUp == Held("ArrowUp") /\ \A k \in Keys \ {"ArrowUp"} : ~Held(k)

\* C8 as stated: with only "up" held the Command has pitch = -KEY_PITCH and
\* roll = the manual roll slider.
C8_OnlyUpKeepsManualRoll ==
  (Sampled /\ OnlyUp) =>
    (cmds[1].pitch = 0 - KEY_PITCH /\ cmds[1].roll = manual["roll"])

\* C8 as amended: with only "up" held the Command has pitch = -KEY_PITCH and
\* roll = 0, the override's roll, whatever the pitch and roll sliders say.
C8_OnlyUpOverridesBoth ==
  (Sampled /\ OnlyUp) => (cmds[1].pitch = 0 - KEY_PITCH /\ cmds[1].roll = 0)

C8_Witness ==
  /\ Sampled
  /\ OnlyUp
  /\ manual["roll"] = 4
  /\ manual["pitch"] = -15
  /\ cmds[1].roll = 0

\* C9 as stated: with "up" and "down" both held the Command's pitch is the
\* manual pitch slider, whatever left / right are.
C9_UpDownKeepsManualPitch ==
  (Sampled /\ Held("ArrowUp") /\ Held("ArrowDown")) => cmds[1].pitch = manual["pitch"]

\* C9 as amended: with "up" and "down" both held the Command's pitch is the
\* manual pitch slider when left and right are both held or both released, and
\* 0 when exactly one of them is held.
C9_UpDownCancels ==
  (Sampled /\ Held("ArrowUp") /\ Held("ArrowDown")) =>
    cmds[1].pitch = IF Held("ArrowLeft") = Held("ArrowRight") THEN manual["pitch"] ELSE 0

C9_Witness ==
  /\ Sampled
  /\ Held("ArrowUp") /\ Held("ArrowDown")
  /\ ~Held("ArrowLeft") /\ ~Held("ArrowRight")
  /\ manual["pitch"] = 4
  /\ cmds[1].pitch = 4

\* C10: throttle and yaw of the Command are the manual throttle and yaw in
\* every keyboard state; with no directional key held, pitch and roll are the
\* manual pitch and roll too.
C10_ThrottleYawPassThrough ==
  Sampled =>
    /\ cmds[1].throttle = manual["throttle"]
    /\ cmds[1].yaw = manual["yaw"]
    /\ (\A k \in Keys : ~Held(k)) =>
         (cmds[1].pitch = manual["pitch"] /\ cmds[1].roll = manual["roll"])

C10_Witness ==
  /\ Sampled
  /\ \A k \in Keys : ~Held(k)
  /\ manual["pitch"] = -15
  /\ manual["throttle"] = 6
  /\ cmds[1] = [throttle |-> 6, pitch |-> -15, roll |-> manual["roll"], yaw |-> manual["yaw"]]

Abs(x) == IF x < 0 THEN 0 - x ELSE x
AllReleased == \A k \in Keys : ~Held(k)
\* The keyboard override is in force: one of the two key pairs does not cancel.
Overriding ==
  Held("ArrowUp") # Held("ArrowDown") \/ Held("ArrowLeft") # Held("ArrowRight")

\* C11 as stated: every Command has |pitch| <= KEY_PITCH and |roll| <= KEY_ROLL.
C11_PitchRollClamped ==
  Sampled => (Abs(cmds[1].pitch) <= KEY_PITCH /\ Abs(cmds[1].roll) <= KEY_ROLL)

\* C11 as amended: while the keyboard override is in force the Command has
\* |pitch| <= KEY_PITCH and |roll| <= KEY_ROLL; otherwise pitch and roll are the
\* manual slider values, whatever their magnitude; throttle and yaw are always
\* the manual values, unclamped.
C11_BoundedOnlyUnderOverride ==
  Sampled =>
    /\ Overriding => (Abs(cmds[1].pitch) <= KEY_PITCH /\ Abs(cmds[1].roll) <= KEY_ROLL)
    /\ ~Overriding =>
         (cmds[1].pitch = manual["pitch"] /\ cmds[1].roll = manual["roll"])
    /\ cmds[1].throttle = manual["throttle"]
    /\ cmds[1].yaw = manual["yaw"]

C11_Witness ==
  /\ Sampled
  /\ Held("ArrowLeft") /\ ~Held("ArrowRight") /\ ~Held("ArrowUp") /\ ~Held("ArrowDown")
  /\ manual["pitch"] = -15
  /\ cmds[1].pitch = 0
  /\ cmds[1].roll = 0 - KEY_ROLL

\* C12: a window blur leaves all four keys released, also when keys were held,
\* and a sampler tick made while all four are released emits the manual pitch
\* and roll.
C12_BlurClearsOverride ==
  /\ ev.kind = "blur" => AllReleased
  /\ (Sampled /\ AllReleased) =>
       (cmds[1].pitch = manual["pitch"] /\ cmds[1].roll = manual["roll"])

C12_Witness ==
  /\ ev.kind = "blur"
  /\ ev.held
  /\ AllReleased
  /\ manual["pitch"] = 4

\* C13: no key stays recorded as held once its keyup was delivered, whatever
\* element had the focus, nor after the window lost focus.
C13_NoStuckKey ==
  [][/\ \A k \in Keys, editable \in BOOLEAN :
          KeyEvent(k, editable, FALSE) => ~keyboardState'[k]
     /\ Blur => \A k \in Keys : ~keyboardState'[k]]_vars

\* C14: a keydown or keyup whose target is editable, or whose key is not one
\* of the four directional keys, leaves keyboardState as it was.
C14_EditableTargetIgnored ==
  [][\A key \in EventKeys, editable \in BOOLEAN, isDown \in BOOLEAN :
       (KeyEvent(key, editable, isDown) /\ (editable \/ key \notin Keys))
         => keyboardState' = keyboardState]_vars

C14_Witness ==
  /\ ev.kind = "keydown"
  /\ AllReleased
  /\ ~ev.held

\* C15: a telemetry frame puts the drone at position (p0, p2, p1) and rotation
\* (r1, r2, r0) of its pos [p0, p1, p2] and rot [r0, r1, r2], an absent vector
\* counting as (0, 0, 0), whatever frames came before.
FramePos == IF "pos" \in DOMAIN msg THEN msg.pos ELSE <<0, 0, 0>>
FrameRot == IF "rot" \in DOMAIN msg THEN msg.rot ELSE <<0, 0, 0>>

C15_CoordinateMapping ==
  (ev.kind = "message" /\ invoked = <<"telemetry">>) =>
    /\ dronePos = <<FramePos[1], FramePos[3], FramePos[2]>>
    /\ droneRot = <<FrameRot[2], FrameRot[3], FrameRot[1]>>

C15_Witness ==
  /\ ev.kind = "message"
  /\ invoked = <<"telemetry">>
  /\ "pos" \in DOMAIN msg /\ "rot" \in DOMAIN msg
  /\ FramePos = <<1, 2, 3>> /\ FrameRot = <<4, 5, 6>>
  /\ dronePos = <<1, 3, 2>>
  /\ droneRot = <<5, 6, 4>>

\* C19: a close that comes with an error event and one that comes without
\* leave the same thing behind: the channel is not Open (Disconnected) and
\* exactly one reconnect with the fixed delay is pending.
C19_ErrorActsAsClose ==
  ev.kind = "close" =>
    /\ ~isOpen
    /\ ChannelState = "Disconnected"
    /\ timers = <<RECONNECT_DELAY>>

C19_Witness ==
  /\ ev.kind = "close"
  /\ ev.error
  /\ ev.wasOpen
  /\ ChannelState = "Disconnected"
  /\ timers = <<RECONNECT_DELAY>>

\* The mode a run / stop request implies.
Implied(kind) == IF kind = "stop" THEN "manual" ELSE "script"

\* C16 as stated: once a run / run-autopilot / stop click has been handled,
\* with its backend call still in flight, the displayed mode is the implied one.
C16_SetWhenTriggered ==
  ev.kind \in Clicks => displayed = Implied(ev.kind)

\* C16, amended: the click itself leaves the displayed mode as it was; the
\* implied mode is displayed when the call's response arrives, whatever its
\* HTTP status, and not at all when the call fails on the network.
C16_SetWhenCallResolves ==
  [][/\ ev'.kind \in Clicks => displayed' = displayed
     /\ ev'.kind = "response" /\ done'.kind \in Clicks =>
          displayed' = IF done'.stage = "lost" THEN displayed ELSE Implied(done'.kind)]_vars

C16_Witness ==
  /\ ev.kind = "response"
  /\ done.kind = "run"
  /\ done.stage = "error"
  /\ done.before # "script"
  /\ displayed = "script"

\* A status poll's response that carries a mode has just been handled.
PollAnswered ==
  /\ ev.kind = "response"
  /\ done.kind = "status"
  /\ done.stage = "ok"
  /\ done.data \in Modes

\* C17: once a status poll's response carrying a mode has been handled, the
\* displayed mode is the mode it returned: a different displayed mode has been
\* overwritten, an equal one is as it was; nothing is raised.
C17_PollOverwritesDisplayed ==
  PollAnswered =>
    /\ displayed = done.data
    /\ done.data = done.before => displayed = done.before
    /\ ~threw

C17_Witness ==
  /\ PollAnswered
  /\ acted > 0
  /\ done.before # done.data
  /\ displayed = done.data

\* C18: with the page's timers running and every request answered and
\* delivered, once the operator acts no more and polls stop failing the
\* displayed mode comes to equal the backend's mode and stays equal.
C18_EventuallyConsistent == <>[](displayed = backend)

C18_Witness ==
  /\ PollAnswered
  /\ acted > 0
  /\ faults > 0
  /\ done.before # backend
  /\ displayed = backend
  /\ reqs = EmptyBag

\* Request r is in flight after the step and was not before it.
Issued(r) == r.stage = "sent" /\ CopiesIn(r, reqs') > CopiesIn(r, reqs)

\* Request r was waiting for the backend before the step and was answered by it.
Answered(r) == r.stage = "sent" /\ CopiesIn(r, reqs') < CopiesIn(r, reqs)

\* C20: starting a status poll issues one status request and nothing else;
\* handling its response issues no request at all; neither changes the
\* backend's mode. A set-mode request is issued only by a change of the mode
\* selector, and the backend's mode changes only when the backend carries out
\* a run, stop or set-mode request.
C20_ReconciliationOneWay ==
  [][/\ ev'.kind = "poll" =>
          /\ backend' = backend
          /\ displayed' = displayed
          /\ \A r \in BagToSet(reqs') : Issued(r) => r.kind = "status"
     /\ ev'.kind = "response" /\ done'.kind = "status" =>
          /\ backend' = backend
          /\ \A r \in BagToSet(reqs') : ~Issued(r)
     /\ (\E r \in BagToSet(reqs') : r.kind = "setmode" /\ Issued(r)) => ev'.kind = "change"
     /\ backend' # backend =>
          \E r \in Reqs : /\ r.kind \in Clicks \cup {"setmode"}
                           /\ Answered(r)
                           /\ backend' = Applied(r)]_vars

C20_Witness ==
  /\ PollAnswered
  /\ acted = 0
  /\ displayed # done.before
  /\ displayed = backend
  /\ reqs = EmptyBag

\* A status poll has just ended without a mode: its request was rejected, its
\* response was not OK, or the response carried no mode.
PollFailed ==
  /\ ev.kind = "response"
  /\ done.kind = "status"
  /\ ~(done.stage = "ok" /\ done.data \in Modes)

\* C21: a status poll that fails leaves the displayed mode as it was and
\* raises nothing, and a later poll still brings back a mode and is handled.
C21_FailedPollIsSwallowed ==
  /\ [](PollFailed => displayed = done.before /\ ~threw)
  /\ (PollFailed ~> PollAnswered)

C21_Witness ==
  /\ PollFailed
  /\ done.stage = "lost"
  /\ displayed = done.before
  /\ displayed # backend
  /\ ~threw

\* The sockets that have not fired their close event.
Live == {s \in Socks : sockets[s] # "CLOSED"}

\* C22: with connect() called at start-up and by the reconnect timer only,
\* there is never more than one socket that has not closed, never more than
\* one pending reconnect timer, and never a pending timer beside such a
\* socket; once started there is exactly one of the two.
C22_OneSocketOrOneTimer ==
  /\ Cardinality(Live) + Len(timers) <= 1
  /\ started => Cardinality(Live) + Len(timers) = 1
  /\ Live \subseteq {ws}

C22_Witness ==
  /\ ev.kind = "timer"
  /\ Len(sockets) = MaxSockets
  /\ Live = {ws}
  /\ timers = <<>>

\* C23: with connect() called at start-up and by the reconnect timer only,
\* isOpen is set only while the current socket has fired open and not yet
\* close, and in every state a sendCommand of the merged command raises
\* nothing: it never reaches send() on a socket that is still connecting.
C23_FlagFollowsCurrentSocket ==
  /\ isOpen => (ws \in Live /\ sockets[ws] # "CONNECTING")
  /\ ~isOpen => (ws = 0 \/ sockets[ws] \in {"CONNECTING", "CLOSED"})
  /\ ~Sample.result.threw
  /\ ev.kind = "tick" => ~threw

C23_Witness ==
  /\ ev.kind = "tick"
  /\ ws > 1
  /\ sockets[ws] = "CONNECTING"
  /\ sockets[ws - 1] = "CLOSED"
  /\ ev.wasOpen = FALSE
  /\ sends = 1
  /\ ~threw

\* The handler the frame was routed to raised an exception, or the frame was a
\* telemetry frame and no telemetry handler was supplied.
HandlerFailed(m) ==
  \/ TypeOf(m) = "telemetry" /\ (~hasOnTelemetry \/ Throws(m))
  \/ TypeOf(m) = "camera" /\ onCamera /\ Throws(m)

\* C24: a frame whose handler fails is caught by the message listener and
\* logged: nothing is raised, the socket, isOpen and the pending timers are as
\* before, and a frame that follows is routed to its handler as usual.
C24_HandlerFailureIsCaught ==
  [][ev'.kind = "message" =>
       /\ HandlerFailed(msg') => (~threw' /\ logged' = 1 /\ UNCHANGED chan)
       /\ (ev.kind = "message" /\ HandlerFailed(msg) /\ ~HandlerFailed(msg')) =>
            /\ ~threw'
            /\ TypeOf(msg') = "telemetry" => invoked' = <<"telemetry">> /\ logged' = 0
            /\ (TypeOf(msg') = "camera" /\ onCamera) =>
                 invoked' = <<"camera">> /\ logged' = 0]_vars

C24_Witness ==
  /\ ev.kind = "message"
  /\ TypeOf(msg) = "telemetry"
  /\ ~hasOnTelemetry
  /\ invoked = <<>>
  /\ logged = 1
  /\ ~threw
  /\ ChannelState = "Open"
  /\ timers = <<>>
====
